---- MODULE Spec2Model ----
(***************************************************************************)
(* Model of the analysis pipeline of rg-ai (Research Genie AI service):    *)
(*   - LLMProcessor   (src/src/services/llm_processor.py): the model       *)
(*     gateway (_call_llm and the two backends) and the orchestrator       *)
(*     (analyze_papers), driven by the /analyze_papers route handler       *)
(*     (src/src/routers/ai_routes.py);                                     *)
(*   - OutputFormatter (src/src/services/formatter.py);                    *)
(*   - QueryRefiner    (src/src/services/query_refiner.py).                *)
(*                                                                         *)
(* Python values are modelled as follows.  A str is the sequence of its    *)
(* characters, or of chunks of characters where only whole words matter.   *)
(* A value whose Python type matters (the values of a dict handed to the   *)
(* formatter) is a record [kind, val]; a dict is a function.  An           *)
(* exception is a record [cls, msg], msg being the tuple of the parts the  *)
(* f-string of the message is built from.  A prompt is the record of the   *)
(* template that rendered it and of the values interpolated into it.       *)
(***************************************************************************)
EXTENDS Integers, Sequences, FiniteSets, TLC

VARIABLES
  constructed,  \* ai_routes.py:19 has run: the module-level LLMProcessor exists
  provider,     \* LLMProcessor.provider
  model,        \* LLMProcessor.model
  client,       \* LLMProcessor.client: "unset" (attribute never assigned), "None", or a handle
  init_outcome, \* what the backend's import and client constructor did in __init__
  req,          \* per request: the locals of analyze_papers() and of the route handler
  log,          \* per request: what the gateway did for each _call_llm of that request
  raw,          \* extractor alone: the raw text of a gaps invocation
  extracted,    \* extractor alone: what lines 130-132 make of raw
  mapping,      \* formatter alone: the argument of format_analysis
  utcnow,       \* formatter alone: the reading of datetime.utcnow()
  fmt,          \* formatter alone: what format_analysis returned or raised
  original,     \* refiner alone: the query first passed to refine
  refinements,  \* refiner alone: what refine returned, each call given the last result
  paper_list,   \* renderer alone: the papers passed to _format_papers
  rendered,     \* renderer alone: what _format_papers returned or raised
  argument,     \* refine called with any value: the value passed as query
  answer        \* refine called with any value: what refine returned or raised

vars ==
  <<constructed, provider, model, client, init_outcome, req, log,
    raw, extracted, mapping, utcnow, fmt, original, refinements,
    paper_list, rendered, argument, answer>>

\* the variables of the specifications of single components
units ==
  <<raw, extracted, mapping, utcnow, fmt, original, refinements,
    paper_list, rendered, argument, answer>>

\* a result not computed yet, and a computed one
Pending == [done |-> FALSE, ok |-> FALSE, val |-> <<>>, exc |-> <<>>]

Done(ok, val, exc) == [done |-> TRUE, ok |-> ok, val |-> val, exc |-> exc]

(***************************************************************************)
(* Input domains                                                           *)
(***************************************************************************)
\* settings.LLM_PROVIDER is any string; one value stands for the unrecognised ones
Providers == {"gemini", "openai", "claude"}

\* what the import and the client constructor of a backend can do
InitOutcomes == {"ok", "ImportError", "Exception"}

\* concurrent requests served by the one LLMProcessor of ai_routes.py
Reqs == {"r1", "r2"}

Queries == {"q1", "q2"}

Levels == {"phd", "kindergarten"}

\* rendered texts a backend may return (a str is a sequence of characters)
NumberedText == <<"1", ".", "a", "\n", "b", "\n", " ", "2", "c">>

ProseText == <<"a", " ", "b">>

RespTexts == {NumberedText, ProseText}

\* what a backend call may report when it fails
BackendCauses == {"timeout", "rate limit"}

NoText == <<>>

(***************************************************************************)
(* Exceptions and call results                                             *)
(***************************************************************************)
NoExc == [cls |-> "none", msg |-> <<>>]

Exc(cls, msg) == [cls |-> cls, msg |-> msg]

\* the result of one _call_llm: returned text or raised exception, and
\* the number of calls made on the backend client (outbound calls)
Returned(text) == [ok |-> TRUE, val |-> text, exc |-> NoExc, sent |-> 1]

Raised(e, sent) == [ok |-> FALSE, val |-> NoText, exc |-> e, sent |-> sent]

\* what the backend does with one call: answers with a text or fails with a cause
BackendOutcomes ==
  [ok : {TRUE}, text : RespTexts, cause : {"none"}]
    \cup [ok : {FALSE}, text : {NoText}, cause : BackendCauses]

(***************************************************************************)
(* Python str operations used by the pipeline                              *)
(***************************************************************************)
\* characters str.strip() removes and \s matches
Whitespace == {" ", "\n", "\t"}

\* characters for which str.isdecimal() holds
DecimalDigits == {"0", "1", "2", "3", "4", "5", "6", "7", "8", "9"}

\* characters for which str.isdigit() holds although they are no decimal
\* digits; "^2" stands for the one character U+00B2 (superscript two)
OtherDigits == {"^2"}

\* c.isdigit()
isdigit(c) == c \in DecimalDigits \cup OtherDigits

\* s.lstrip()
RECURSIVE lstrip(_)
lstrip(s) ==
  IF s # <<>> /\ Head(s) \in Whitespace THEN lstrip(Tail(s)) ELSE s

\* s.rstrip()
RECURSIVE rstrip(_)
rstrip(s) ==
  IF s # <<>> /\ s[Len(s)] \in Whitespace
  THEN rstrip(SubSeq(s, 1, Len(s) - 1))
  ELSE s

\* s.strip()
strip(s) == rstrip(lstrip(s))

\* s.split(sep) for a one-character sep: the pieces between the separators,
\* empty pieces included; "".split(sep) is [""]
RECURSIVE split(_, _)
split(s, sep) ==
  IF \A i \in 1..Len(s) : s[i] # sep
  THEN <<s>>
  ELSE LET i == CHOOSE k \in 1..Len(s) :
                  s[k] = sep /\ \A j \in 1..(k - 1) : s[j] # sep
       IN  <<SubSeq(s, 1, i - 1)>> \o split(SubSeq(s, i + 1, Len(s)), sep)

\* a comprehension that keeps the lines as they are
UnstrippedDigitLedMutant(lines) ==
  SelectSeq(lines, LAMBDA gap : strip(gap) # <<>> /\ isdigit(strip(gap)[1]))

\* [f(x) for x in xs if p(x)] with f = strip and p = the filter of line 131
RECURSIVE StrippedDigitLed(_)
StrippedDigitLed(lines) ==
  IF lines = <<>> THEN <<>>
  ELSE LET gap == Head(lines)
           keep == strip(gap) # <<>> /\ isdigit(strip(gap)[1])
       IN  (IF keep THEN <<strip(gap)>> ELSE <<>>)
             \o StrippedDigitLed(Tail(lines))

\* a parse without the fallback to the whole response
ParseGapsNoFallbackMutant(response) == StrippedDigitLed(split(response, "\n"))

\* lines 130-132 of _extract_research_gaps: the response parsed into gaps

ParseGaps(response) ==
  LET gaps == StrippedDigitLed(split(response, "\n"))
  IN  IF gaps # <<>> THEN gaps ELSE <<response>>

(***************************************************************************)
(* Python values whose type matters, and dicts                             *)
(***************************************************************************)
Str(s) == [kind |-> "str", val |-> s]

List(xs) == [kind |-> "list", val |-> xs]

None == [kind |-> "none", val |-> <<>>]

\* d.get(key, default)
Get(d, key, default) == IF key \in DOMAIN d THEN d[key] ELSE default

\* sep.join(xs)
RECURSIVE join(_, _)
join(sep, xs) ==
  IF xs = <<>> THEN <<>>
  ELSE IF Len(xs) = 1 THEN <<xs[1]>>
  ELSE <<xs[1], sep>> \o join(sep, Tail(xs))

(***************************************************************************)
(* PromptTemplates (src/src/utils/prompts.py)                              *)
(***************************************************************************)
level_descriptions ==
  [high_school   |-> "a high school student with basic knowledge",
   undergraduate |-> "an undergraduate student with foundational knowledge",
   graduate      |-> "a graduate student with advanced knowledge",
   phd           |-> "a PhD researcher with expert-level knowledge",
   general       |-> "a general audience with no specialized knowledge"]

\* a fallback to the entry of the table for "undergraduate"
AudienceTableDefaultMutant(education_level) ==
  Get(level_descriptions, education_level, level_descriptions.undergraduate)

\* level_descriptions.get(education_level, "an undergraduate student")
Audience(education_level) ==
  Get(level_descriptions, education_level, "an undergraduate student")

Prompt(template, query, papers_text, summary, audience) ==
  [template |-> template, query |-> query, papers_text |-> papers_text,
   summary |-> summary, audience |-> audience]

get_summary_prompt(query, papers_text) ==
  Prompt("summary", query, papers_text, NoText, "")

get_gaps_prompt(query, papers_text) ==
  Prompt("gaps", query, papers_text, NoText, "")

SimplifiedPromptMutant(query, summary, education_level) ==
  Prompt("simplified_explanation", query, <<>>, NoText,
         Audience(education_level))

get_simplified_explanation_prompt(query, summary, education_level) ==
  Prompt("simplified_explanation", query, <<>>, summary,
         Audience(education_level))

(***************************************************************************)
(* Papers and their rendering (LLMProcessor._format_papers)                *)
(***************************************************************************)
\* values of the other Python types met; the val of an int is <<n>>
IntVal(n) == [kind |-> "int", val |-> <<n>>]

Bytes(s) == [kind |-> "bytes", val |-> s]

\* the character of the decimal digit d
DigitChar(d) ==
  CASE d = 0 -> "0" [] d = 1 -> "1" [] d = 2 -> "2" [] d = 3 -> "3"
    [] d = 4 -> "4" [] d = 5 -> "5" [] d = 6 -> "6" [] d = 7 -> "7"
    [] d = 8 -> "8" [] d = 9 -> "9"

\* str(n) of an int n >= 0
RECURSIVE Decimal(_)
Decimal(n) ==
  IF n < 10 THEN <<DigitChar(n)>>
  ELSE Decimal(n \div 10) \o <<DigitChar(n % 10)>>

\* f"{v}": str(v) of None, of an int and of a str
FormatValue(v) ==
  IF v.kind = "none" THEN <<"N", "o", "n", "e">>
  ELSE IF v.kind = "int" THEN Decimal(v.val[1])
  ELSE v.val

\* the default 'N/A' of lines 113-116
NA == Str(<<"N", "/", "A">>)

\* Paper(**body) of ai_routes.py:33-38: the fields not in the JSON object
\* take their defaults; fields_set are the fields the object held
Paper(body) ==
  [is_model |-> TRUE,
   fields_set |-> DOMAIN body,
   fields |-> [title    |-> body["title"],
               abstract |-> body["abstract"],
               authors  |-> Get(body, "authors", List(<<>>)),
               year     |-> Get(body, "year", None),
               url      |-> Get(body, "url", None)]]

\* a plain dict passed to analyze_papers as a paper
PlainPaper(d) == [is_model |-> FALSE, fields_set |-> DOMAIN d, fields |-> d]

\* line 110: paper.dict() if hasattr(paper, 'dict') else paper; dict()
\* returns a new dict holding every field of the model
PaperDict(paper) == paper.fields

PaperA ==
  Paper([title |-> Str(<<"t1">>), abstract |-> Str(<<"a1">>),
         authors |-> List(<<"Ada", "Bob">>), year |-> IntVal(2020)])

PaperB == Paper([title |-> Str(<<"t2">>), abstract |-> Str(<<"a2">>)])

\* a paper whose JSON object holds "authors": null
PaperC ==
  Paper([title |-> Str(<<"t1">>), abstract |-> Str(<<"a1">>), authors |-> None])

PaperSets == {<<PaperA>>, <<PaperB, PaperA>>, <<PaperC>>}

\* an entry numbered as enumerate(papers) numbers, from 0
PaperEntryFromZeroMutant(i, paper_dict) ==
  [n        |-> i - 1,
   title    |-> FormatValue(Get(paper_dict, "title", NA)),
   abstract |-> FormatValue(Get(paper_dict, "abstract", NA)),
   authors  |-> join(", ", Get(paper_dict, "authors", List(<<>>)).val),
   year     |-> FormatValue(Get(paper_dict, "year", NA))]

\* the entry of paper number i: lines 111-117
PaperEntry(i, paper_dict) ==
  [n        |-> i,
   title    |-> FormatValue(Get(paper_dict, "title", NA)),
   abstract |-> FormatValue(Get(paper_dict, "abstract", NA)),
   authors  |-> join(", ", Get(paper_dict, "authors", List(<<>>)).val),
   year     |-> FormatValue(Get(paper_dict, "year", NA))]

\* line 115: ', '.join(x) raises TypeError when x is None
JoinRaises(paper_dict) == Get(paper_dict, "authors", List(<<>>)).kind # "list"

\* _format_papers: [ok, val, exc]; val holds the entries that
\* "\n\n".join(formatted) joins, in order
_format_papers(papers) ==
  IF \E i \in 1..Len(papers) : JoinRaises(PaperDict(papers[i]))
  THEN [ok |-> FALSE, val |-> <<>>,
        exc |-> Exc("TypeError", <<"can only join an iterable">>)]
  ELSE [ok |-> TRUE,
        val |-> [i \in 1..Len(papers) |-> PaperEntry(i, PaperDict(papers[i]))],
        exc |-> NoExc]

(***************************************************************************)
(* OutputFormatter (src/src/services/formatter.py)                         *)
(***************************************************************************)
required_fields == <<"summary", "research_gaps", "simplified_explanation">>

\* isinstance(v, list)
IsList(v) == v.kind = "list"

\* the dict built at lines 31-40; now is the reading of datetime.utcnow()
Formatted(analysis_result, now) ==
  [summary |-> Get(analysis_result, "summary", Str(<<>>)),
   research_gaps |-> Get(analysis_result, "research_gaps", List(<<>>)),
   simplified_explanation |->
       Get(analysis_result, "simplified_explanation", Str(<<>>)),
   education_level |->
       Get(analysis_result, "education_level", Str(<<"undergraduate">>)),
   metadata |-> [processed_at |-> now, version |-> "1.0.0"]]

\* a validation that checks the presence of the fields only
ValidateNoTypeCheckMutant(output) ==
  IF \E i \in 1..Len(required_fields) : required_fields[i] \notin DOMAIN output
  THEN Exc("ValueError", <<"Missing required field: ", "summary">>)
  ELSE NoExc

\* _validate_output: the exception it raises, NoExc when it returns True
_validate_output(output) ==
  IF \E i \in 1..Len(required_fields) : required_fields[i] \notin DOMAIN output
  THEN LET i == CHOOSE k \in 1..Len(required_fields) :
                  /\ required_fields[k] \notin DOMAIN output
                  /\ \A j \in 1..(k - 1) : required_fields[j] \in DOMAIN output
       IN  Exc("ValueError", <<"Missing required field: ", required_fields[i]>>)
  ELSE IF ~IsList(output["research_gaps"])
  THEN Exc("ValueError", <<"research_gaps must be a list">>)
  ELSE NoExc

\* format_analysis: [ok, val, exc]; its except clause re-raises
format_analysis(analysis_result, now) ==
  LET formatted == Formatted(analysis_result, now)
      e == _validate_output(formatted)
  IN  IF e = NoExc
      THEN [ok |-> TRUE, val |-> formatted, exc |-> NoExc]
      ELSE [ok |-> FALSE, val |-> [k \in {} |-> None], exc |-> e]

(***************************************************************************)
(* The model gateway: LLMProcessor.__init__ and _call_llm                  *)
(***************************************************************************)
\* settings.LLM_MODEL when no LLM_API_KEY is set (settings.py:58-69)
ModelOf(p) == IF p = "openai" THEN "gpt-4" ELSE "gemini-2.5-flash"

gateway == <<constructed, provider, model, client, init_outcome>>

\* the effect of an _init_ method: the client it leaves and the exception
\* that escapes it (NoExc when it returns)
InitResult(c, e) == [client |-> c, exc |-> e]

\* _init_gemini: both except clauses (ImportError, Exception) log the error
\* and set the client to None
_init_gemini(outcome) ==
  IF outcome = "ok"
  THEN InitResult("GenerativeModel", NoExc)
  ELSE InitResult("None", NoExc)

\* _init_openai: likewise
_init_openai(outcome) ==
  IF outcome = "ok" THEN InitResult("OpenAI", NoExc) ELSE InitResult("None", NoExc)

\* the branch of __init__ taken for provider p (lines 27-32)
InitFor(p, outcome) ==
  IF p = "gemini" THEN _init_gemini(outcome)
  ELSE IF p = "openai" THEN _init_openai(outcome)
  ELSE InitResult("unset", NoExc)

\* llm_processor = LLMProcessor() at import of ai_routes.py: __init__ (lines
\* 20-32); an unknown provider only logs a warning.  Were an exception to
\* escape __init__, the import would fail and no request would be served.
Construct(p, outcome) ==
  /\ init_outcome = "none"
  /\ init_outcome' = IF p \in {"gemini", "openai"} THEN outcome ELSE "not attempted"
  /\ provider' = p
  /\ model' = ModelOf(p)
  /\ client' = InitFor(p, outcome).client
  /\ constructed' = (InitFor(p, outcome).exc = NoExc)
  /\ UNCHANGED <<req, log, units>>

\* a backend method that calls the client without testing it first
CallBackendUncheckedMutant(who, prompt, o) ==
  IF client \in {"unset", "None"}
  THEN Raised(Exc("AttributeError", <<"generate_content">>), 0)
  ELSE IF o.ok
  THEN Returned(o.text)
  ELSE Raised(Exc("BackendError", <<o.cause>>), 1)

\* a backend method that calls the client a second time when the call fails
CallBackendRetryMutant(who, prompt, o) ==
  IF client = "unset"
  THEN Raised(Exc("AttributeError", <<"client">>), 0)
  ELSE IF client = "None"
  THEN Raised(Exc("RuntimeError", <<who, " client not initialized">>), 0)
  ELSE IF o.ok
  THEN Returned(o.text)
  ELSE Raised(Exc("BackendError", <<o.cause>>), 2)

\* the body shared by _call_gemini and _call_openai; who is "Gemini" or "OpenAI"
CallBackend(who, prompt, o) ==
  IF client = "unset"
  THEN Raised(Exc("AttributeError", <<"client">>), 0)
  ELSE IF client = "None"
  THEN Raised(Exc("RuntimeError", <<who, " client not initialized">>), 0)
  ELSE IF o.ok
  THEN Returned(o.text)
  ELSE Raised(Exc("BackendError", <<o.cause>>), 1)

_call_gemini(prompt, o) == CallBackend("Gemini", prompt, o)

_call_openai(prompt, o) == CallBackend("OpenAI", prompt, o)

\* a dispatch whose last branch is the second backend instead of the raise
CallLlmFallThroughMutant(prompt, o) ==
  IF provider = "gemini" THEN _call_gemini(prompt, o)
  ELSE _call_openai(prompt, o)

\* _call_llm: dispatch on the provider; the except clause logs and re-raises
_call_llm(prompt, o) ==
  IF provider = "gemini" THEN _call_gemini(prompt, o)
  ELSE IF provider = "openai" THEN _call_openai(prompt, o)
  ELSE Raised(Exc("ValueError", <<"Unsupported LLM provider: ", provider>>), 0)

(***************************************************************************)
(* The orchestrator: LLMProcessor.analyze_papers under the route handler   *)
(* analyze_papers of ai_routes.py.  The only suspension points of a        *)
(* request are its three awaits of _call_llm, so a request advances in     *)
(* one step per gateway invocation; what follows an invocation up to the   *)
(* next one (or up to the HTTP response) belongs to the same step.         *)
(***************************************************************************)
EmptyDict == [k \in {} |-> None]

IdleRequest ==
  [pc |-> "idle", query |-> "", papers |-> <<>>, education_level |-> "",
   papers_text |-> <<>>, summary |-> NoText, research_gaps |-> <<>>,
   simplified_explanation |-> NoText,
   returned |-> EmptyDict,        \* the dict analyze_papers returned
   raised |-> NoExc,              \* the exception analyze_papers raised
   status |-> 0,                  \* HTTP status of the response
   body |-> EmptyDict,            \* AnalyzePapersResponse
   detail |-> <<>>]               \* HTTPException.detail

\* one entry of the trace of a request's invocations: the task, the prompt
\* passed to _call_llm, what the backend does when called (o) and the result
Invocation(task, prompt, o, res) ==
  [task |-> task, prompt |-> prompt, backend |-> o, res |-> res]

\* an except clause that returns what has been computed so far
OnErrorPartialMutant(rq, e) ==
  [rq EXCEPT !.pc = "done", !.status = 200,
             !.returned = [summary |-> Str(rq.summary),
                           education_level |-> Str(<<rq.education_level>>)],
             !.body = [summary |-> Str(rq.summary),
                       education_level |-> Str(<<rq.education_level>>)]]

\* an exception e leaves _call_llm: the except clause of analyze_papers
\* (lines 102-104) re-raises it and the route handler (ai_routes.py:100-105)
\* turns it into HTTP 500
OnError(rq, e) ==
  [rq EXCEPT !.pc = "done", !.raised = e, !.status = 500,
             !.detail = <<"Failed to analyze papers: ">> \o e.msg]

\* a record whose summary is read from a place the requests share: it is
\* the summary of another request when one has a summary
AnalysisRecordSharedMutant(rq, simplified_explanation) ==
  LET others == {o \in DOMAIN req : req[o].summary \notin {NoText, rq.summary}}
      summary == IF others = {} THEN rq.summary
                 ELSE req[CHOOSE o \in others : TRUE].summary
  IN  [summary |-> Str(summary),
       research_gaps |-> List(rq.research_gaps),
       simplified_explanation |-> Str(simplified_explanation),
       education_level |-> Str(<<rq.education_level>>)]

\* lines 95-100: the dict analyze_papers returns
AnalysisRecord(rq, simplified_explanation) ==
  [summary |-> Str(rq.summary),
   research_gaps |-> List(rq.research_gaps),
   simplified_explanation |-> Str(simplified_explanation),
   education_level |-> Str(<<rq.education_level>>)]

\* ai_routes.py:90-98: format the returned dict and build the response
Respond(rq, analysis_result, now) ==
  LET f == format_analysis(analysis_result, now)
  IN  IF f.ok
      THEN [rq EXCEPT !.pc = "done", !.returned = analysis_result,
                      !.status = 200,
                      !.body = [summary |-> f.val["summary"],
                                research_gaps |-> f.val["research_gaps"],
                                simplified_explanation |->
                                    f.val["simplified_explanation"],
                                education_level |-> Str(<<rq.education_level>>)]]
      ELSE [rq EXCEPT !.pc = "done", !.returned = analysis_result,
                      !.status = 500,
                      !.detail = <<"Failed to analyze papers: ">> \o f.exc.msg]

\* the handler is entered; analyze_papers runs up to its first await, or up
\* to its except clause when _format_papers raises
Request(r, query, papers, education_level) ==
  /\ constructed
  /\ req[r].pc = "idle"
  /\ LET f == _format_papers(papers)
         rq == [req[r] EXCEPT !.query = query, !.papers = papers,
                              !.education_level = education_level]
     IN  req' = [req EXCEPT ![r] =
                   IF f.ok
                   THEN [rq EXCEPT !.pc = "summary", !.papers_text = f.val]
                   ELSE OnError(rq, f.exc)]
  /\ UNCHANGED <<gateway, log, units>>

\* line 85: summary = await self._generate_summary(query, papers_text)
GenerateSummary(r, o) ==
  /\ req[r].pc = "summary"
  /\ LET prompt == get_summary_prompt(req[r].query, req[r].papers_text)
         res == _call_llm(prompt, o)
     IN  /\ log' = [log EXCEPT ![r] = Append(@, Invocation("summary", prompt, o, res))]
         /\ req' = [req EXCEPT ![r] =
                      IF res.ok
                      THEN [@ EXCEPT !.pc = "gaps", !.summary = res.val]
                      ELSE OnError(@, res.exc)]
  /\ UNCHANGED <<gateway, units>>

\* line 88: research_gaps = await self._extract_research_gaps(query, papers_text)
ExtractResearchGaps(r, o) ==
  /\ req[r].pc = "gaps"
  /\ LET prompt == get_gaps_prompt(req[r].query, req[r].papers_text)
         res == _call_llm(prompt, o)
     IN  /\ log' = [log EXCEPT ![r] = Append(@, Invocation("gaps", prompt, o, res))]
         /\ req' = [req EXCEPT ![r] =
                      IF res.ok
                      THEN [@ EXCEPT !.pc = "simplified_explanation",
                                     !.research_gaps = ParseGaps(res.val)]
                      ELSE OnError(@, res.exc)]
  /\ UNCHANGED <<gateway, units>>

\* lines 91-100, then the rest of the route handler
GenerateSimplifiedExplanation(r, o, now) ==
  /\ req[r].pc = "simplified_explanation"
  /\ LET prompt == get_simplified_explanation_prompt(
                       req[r].query, req[r].summary, req[r].education_level)
         res == _call_llm(prompt, o)
     IN  /\ log' = [log EXCEPT ![r] =
                      Append(@, Invocation("simplified_explanation", prompt, o, res))]
         /\ req' = [req EXCEPT ![r] =
                      IF res.ok
                      THEN Respond([@ EXCEPT !.simplified_explanation = res.val],
                                   AnalysisRecord(@, res.val), now)
                      ELSE OnError(@, res.exc)]
  /\ UNCHANGED <<gateway, units>>

\* readings of datetime.utcnow()
Times == {"t1", "t2"}

\* no extraction and no formatting under way
IdleUnits ==
  /\ raw = <<>>
  /\ extracted = Pending
  /\ mapping = EmptyDict
  /\ utcnow = "t1"
  /\ fmt = Pending
  /\ original = <<>>
  /\ refinements = <<>>
  /\ paper_list = <<>>
  /\ rendered = Pending
  /\ argument = None
  /\ answer = Pending

\* before ai_routes.py is imported
IdlePipeline ==
  /\ constructed = FALSE
  /\ provider = "unset"
  /\ model = "unset"
  /\ client = "unset"
  /\ init_outcome = "none"
  /\ req = [r \in Reqs |-> IdleRequest]
  /\ log = [r \in Reqs |-> <<>>]

Init == IdlePipeline /\ IdleUnits

Next ==
  \/ \E p \in Providers, outcome \in InitOutcomes : Construct(p, outcome)
  \/ \E r \in Reqs, query \in Queries, papers \in PaperSets, lvl \in Levels :
        Request(r, query, papers, lvl)
  \/ \E r \in Reqs, o \in BackendOutcomes : GenerateSummary(r, o)
  \/ \E r \in Reqs, o \in BackendOutcomes : ExtractResearchGaps(r, o)
  \/ \E r \in Reqs, o \in BackendOutcomes, now \in Times :
        GenerateSimplifiedExplanation(r, o, now)

Spec == Init /\ [][Next]_vars

(***************************************************************************)
(* Properties of the gateway and of the orchestrator                       *)
(***************************************************************************)
Recognized == {"gemini", "openai"}

Ready == constructed /\ client \notin {"unset", "None"}

\* the indices of the failed invocations of request r
Failures(r) == {i \in 1..Len(log[r]) : ~log[r][i].res.ok}

\* C1: when an invocation of an analysis fails, it is the last invocation of
\* that analysis, analyze_papers raises the exception of that invocation and
\* returns no dict, and the request ends without a response body.
C1_FailureAbortsAnalysis ==
  \A r \in Reqs : \A i \in Failures(r) :
    /\ i = Len(log[r])
    /\ req[r].pc = "done"
    /\ req[r].raised = log[r][i].res.exc
    /\ req[r].raised # NoExc
    /\ req[r].returned = EmptyDict
    /\ req[r].body = EmptyDict
    /\ req[r].status = 500

\* a request whose summary invocation succeeded and whose gaps invocation failed
C1_Witness ==
  \E r \in Reqs :
    /\ Len(log[r]) = 2
    /\ log[r][1].res.ok
    /\ ~log[r][2].res.ok
    /\ req[r].pc = "done"

\* C2: when the initialization of a recognized provider's backend failed,
\* the gateway is constructed with client None, and every invocation raises
\* RuntimeError "... client not initialized" without an outbound call.
C2_DegradedGateway ==
  (provider \in Recognized /\ init_outcome \in {"ImportError", "Exception"}) =>
    /\ constructed
    /\ client = "None"
    /\ \A r \in Reqs : \A i \in 1..Len(log[r]) :
         /\ ~log[r][i].res.ok
         /\ log[r][i].res.exc.cls = "RuntimeError"
         /\ log[r][i].res.exc.msg[2] = " client not initialized"
         /\ log[r][i].res.sent = 0

\* an invocation made on a gateway whose initialization failed
C2_Witness ==
  /\ provider \in Recognized
  /\ init_outcome \in {"ImportError", "Exception"}
  /\ \E r \in Reqs : Len(log[r]) > 0

\* C3: with a provider that is neither "gemini" nor "openai" the gateway is
\* constructed, and every invocation raises ValueError "Unsupported LLM
\* provider: <provider>" without an outbound call.
C3_UnsupportedProvider ==
  (init_outcome # "none" /\ provider \notin Recognized) =>
    /\ constructed
    /\ \A r \in Reqs : \A i \in 1..Len(log[r]) :
         /\ ~log[r][i].res.ok
         /\ log[r][i].res.exc =
              Exc("ValueError", <<"Unsupported LLM provider: ", provider>>)
         /\ log[r][i].res.sent = 0

\* an invocation made on a gateway with an unrecognized provider
C3_Witness ==
  /\ init_outcome # "none"
  /\ provider \notin Recognized
  /\ \E r \in Reqs : Len(log[r]) > 0

\* the exception carries x in its message
Carries(e, x) == \E k \in 1..Len(e.msg) : e.msg[k] = x

\* C4 as claimed: in the ready state every invocation makes one outbound
\* call; a failed call raises an exception carrying the provider tag and the
\* backend-reported cause; a successful call returns the backend's text.
C4_AsClaimed ==
  Ready =>
    \A r \in Reqs : \A i \in 1..Len(log[r]) :
      LET inv == log[r][i]
      IN  /\ inv.res.sent = 1
          /\ inv.backend.ok => (inv.res.ok /\ inv.res.val = inv.backend.text)
          /\ ~inv.backend.ok =>
               /\ ~inv.res.ok
               /\ Carries(inv.res.exc, inv.backend.cause)
               /\ Carries(inv.res.exc, provider)

\* C4 as amended: in the ready state every invocation makes one outbound
\* call; a failed call raises the backend's own exception, which carries the
\* backend-reported cause and nothing else; a successful call returns the
\* backend's text.
C4_OneCallNoRetry ==
  Ready =>
    \A r \in Reqs : \A i \in 1..Len(log[r]) :
      LET inv == log[r][i]
      IN  /\ inv.res.sent = 1
          /\ inv.backend.ok => (inv.res.ok /\ inv.res.val = inv.backend.text)
          /\ ~inv.backend.ok =>
               (~inv.res.ok /\ inv.res.exc = Exc("BackendError", <<inv.backend.cause>>))

\* a ready gateway has served a failed and a successful backend call
C4_Witness ==
  /\ Ready
  /\ \E r \in Reqs : \E i, j \in 1..Len(log[r]) :
       log[r][i].backend.ok /\ ~log[r][j].backend.ok /\ log[r][j].res.sent = 1

TaskOrder == <<"summary", "gaps", "simplified_explanation">>

\* C5: the invocations of a request are summary, gaps, simplified
\* explanation in this order, each made after the previous one returned;
\* the simplified-explanation prompt holds the text the summary invocation
\* returned and the audience of the request's education level; an analysis
\* that returned made exactly three invocations.
C5_InvocationOrder ==
  \A r \in Reqs :
    /\ Len(log[r]) <= 3
    /\ \A i \in 1..Len(log[r]) :
         /\ log[r][i].task = TaskOrder[i]
         /\ i > 1 => log[r][i - 1].res.ok
    /\ Len(log[r]) = 3 =>
         /\ log[r][3].prompt.summary = log[r][1].res.val
         /\ log[r][3].prompt.audience = Audience(req[r].education_level)
         /\ log[r][3].prompt.query = req[r].query
    /\ (req[r].returned # EmptyDict \/ req[r].status = 200) =>
         (Len(log[r]) = 3 /\ \A i \in 1..3 : log[r][i].res.ok)

\* an analysis that returned after three invocations
C5_Witness ==
  \E r \in Reqs :
    /\ req[r].status = 200
    /\ Len(log[r]) = 3
    /\ log[r][1].res.val # log[r][2].res.val

RecognizedLevels == {"high_school", "undergraduate", "graduate", "phd", "general"}

\* the invocations of request r for the simplified explanation
Simplified(r) ==
  {i \in 1..Len(log[r]) : log[r][i].task = "simplified_explanation"}

\* C15 as claimed: for an education level outside the recognized ones, the
\* audience of the simplified-explanation prompt is the phrase of the table
\* for "undergraduate".
C15_AsClaimed ==
  \A r \in Reqs : \A i \in Simplified(r) :
    req[r].education_level \notin RecognizedLevels =>
      log[r][i].prompt.audience =
        "an undergraduate student with foundational knowledge"

\* C15 as amended: for an education level outside the recognized ones, the
\* audience of the simplified-explanation prompt is "an undergraduate
\* student", which is not the phrase of the table for "undergraduate"; for
\* "phd" it is the phrase of the table.
C15_FallbackAudience ==
  \A r \in Reqs : \A i \in Simplified(r) :
    /\ req[r].education_level \notin RecognizedLevels =>
         log[r][i].prompt.audience = "an undergraduate student"
    /\ req[r].education_level = "phd" =>
         log[r][i].prompt.audience = "a PhD researcher with expert-level knowledge"

\* a request with an unrecognized education level got its explanation
C15_Witness ==
  \E r \in Reqs :
    /\ req[r].education_level \notin RecognizedLevels
    /\ Simplified(r) # {}
    /\ req[r].status = 200

\* the other request
Other(r) == CHOOSE o \in Reqs : o # r

\* what request r holds comes from its own inputs and from the answers of
\* the backend to its own invocations
OwnData(r) ==
  /\ \A i \in 1..Len(log[r]) : log[r][i].prompt.query = req[r].query
  /\ \A i \in 1..Len(log[r]) :
       log[r][i].task \in {"summary", "gaps"} =>
         log[r][i].prompt.papers_text = _format_papers(req[r].papers).val
  /\ \A i \in Simplified(r) : log[r][i].prompt.summary = log[r][1].backend.text
  /\ req[r].status = 200 =>
       /\ Len(log[r]) = 3
       /\ req[r].body["summary"] = Str(log[r][1].backend.text)
       /\ req[r].body["research_gaps"] = List(ParseGaps(log[r][2].backend.text))
       /\ req[r].body["simplified_explanation"] = Str(log[r][3].backend.text)
       /\ req[r].body["education_level"] = Str(<<req[r].education_level>>)
       /\ req[r].returned["summary"] = req[r].body["summary"]
       /\ req[r].returned["research_gaps"] = req[r].body["research_gaps"]
       /\ req[r].returned["simplified_explanation"] =
            req[r].body["simplified_explanation"]
       /\ req[r].returned["education_level"] = req[r].body["education_level"]

\* C18: in every interleaving of the requests, no step taken after the
\* construction of the gateway changes its client, provider or model, and
\* the record returned to a request is made of that request's query,
\* papers and education level and of the answers to its own invocations.
C18_RequestsIndependent ==
  /\ [][constructed => UNCHANGED <<client, provider, model>>]_vars
  /\ [](\A r \in Reqs : OwnData(r))

\* a request got its record while the other one, with another query,
\* another education level and another summary, is between two invocations
C18_Witness ==
  \E r \in Reqs :
    /\ req[r].status = 200
    /\ req[Other(r)].pc = "simplified_explanation"
    /\ req[Other(r)].query # req[r].query
    /\ req[Other(r)].education_level # req[r].education_level
    /\ req[Other(r)].summary # req[r].summary
    /\ req[Other(r)].research_gaps # req[r].research_gaps

(***************************************************************************)
(* The response extractor alone: lines 130-132 of _extract_research_gaps   *)
(* applied to every text of at most MaxLen characters                      *)
(***************************************************************************)
MaxLen == 5

GapChars == {"1", "^2", "a", " ", "\n"}

\* the strs of at most n characters over alphabet
StrsUpTo(alphabet, n) == UNION {[1..k -> alphabet] : k \in 0..n}

InitGaps ==
  /\ IdlePipeline
  /\ raw \in StrsUpTo(GapChars, MaxLen)
  /\ extracted = Pending
  /\ mapping = EmptyDict
  /\ utcnow = "t1"
  /\ fmt = Pending
  /\ original = <<>>
  /\ refinements = <<>>
  /\ paper_list = <<>>
  /\ rendered = Pending
  /\ argument = None
  /\ answer = Pending

Extract ==
  /\ ~extracted.done
  /\ extracted' = Done(TRUE, ParseGaps(raw), <<>>)
  /\ UNCHANGED <<gateway, req, log, raw, mapping, utcnow, fmt, original, refinements,
                 paper_list, rendered, argument, answer>>

SpecGaps == InitGaps /\ [][Extract]_vars

\* the lines of the raw response
Lines == split(raw, "\n")

\* line i is digit-led by the test dig: its stripped form is non-empty and
\* starts with a character that passes dig
Led(i, dig(_)) == strip(Lines[i]) # <<>> /\ dig(strip(Lines[i])[1])

IsDecimal(c) == c \in {"0", "1", "2", "3", "4", "5", "6", "7", "8", "9"}

\* the decimal digits and the other characters of Unicode's digit classes
IsDigitChar(c) == IsDecimal(c) \/ c = "^2"

\* xs is the sequence of the stripped lines that are digit-led by dig, in
\* the order of the response
IsStrippedLed(xs, dig(_)) ==
  \E f \in [1..Len(xs) -> 1..Len(Lines)] :
    /\ \A i, j \in 1..Len(xs) : i < j => f[i] < f[j]
    /\ \A i \in 1..Len(xs) : Led(f[i], dig) /\ xs[i] = strip(Lines[f[i]])
    /\ \A k \in 1..Len(Lines) : Led(k, dig) => \E i \in 1..Len(xs) : f[i] = k

\* C6 as claimed: when some line of the response starts, once stripped, with
\* a decimal digit, the gaps are exactly those lines, stripped, in order.
C6_AsClaimed ==
  (extracted.done /\ \E i \in 1..Len(Lines) : Led(i, IsDecimal)) =>
    (IsStrippedLed(extracted.val, IsDecimal) /\ extracted.val # <<>>)

\* C6 as amended: when some line of the response starts, once stripped, with
\* a character for which str.isdigit() holds (a decimal digit or another
\* Unicode digit such as a superscript), the gaps are exactly those lines,
\* stripped, in order, and there is at least one.
C6_DigitLedLines ==
  (extracted.done /\ \E i \in 1..Len(Lines) : Led(i, IsDigitChar)) =>
    (IsStrippedLed(extracted.val, IsDigitChar) /\ extracted.val # <<>>)

\* two lines kept, one of them stripped, and a line dropped
C6_Witness ==
  /\ extracted.done
  /\ Len(extracted.val) = 2
  /\ Len(Lines) = 3
  /\ \E i \in 1..Len(Lines) : Led(i, IsDecimal) /\ Lines[i] # strip(Lines[i])

TextVals == {Str(<<"a">>), None}

GapVals == {List(<<>>), List(<< <<"1", "a">> >>), Str(<<"1", "a">>), None}

LevelVals == {Str(<<"phd">>)}

\* the dicts with key k absent or bound to a value of V
Optional(k, V) == {EmptyDict} \cup {[x \in {k} |-> v] : v \in V}

Mappings ==
  {a @@ b @@ c @@ d :
     a \in Optional("summary", TextVals),
     b \in Optional("research_gaps", GapVals),
     c \in Optional("simplified_explanation", TextVals),
     d \in Optional("education_level", LevelVals)}

InitFormat ==
  /\ IdlePipeline
  /\ raw = <<>>
  /\ extracted = Pending
  /\ mapping \in Mappings
  /\ utcnow \in Times
  /\ fmt = Pending
  /\ original = <<>>
  /\ refinements = <<>>
  /\ paper_list = <<>>
  /\ rendered = Pending
  /\ argument = None
  /\ answer = Pending

Format ==
  /\ ~fmt.done
  /\ LET f == format_analysis(mapping, utcnow)
     IN  fmt' = Done(f.ok, f.val, f.exc)
  /\ UNCHANGED <<gateway, req, log, raw, extracted, mapping, utcnow, original, refinements,
                 paper_list, rendered, argument, answer>>

SpecFormat == InitFormat /\ [][Format]_vars

RequiredKeys == {"summary", "research_gaps", "simplified_explanation"}

\* C8: for a mapping that lacks summary, research_gaps or
\* simplified_explanation, format_analysis raises an error naming a missing
\* field and returns no record.
C8_MissingFieldRejected ==
  (fmt.done /\ RequiredKeys \ DOMAIN mapping # {}) =>
    /\ ~fmt.ok
    /\ fmt.val = EmptyDict
    /\ \E k \in RequiredKeys \ DOMAIN mapping :
         fmt.exc = Exc("ValueError", <<"Missing required field: ", k>>)

\* C9: for a mapping whose research_gaps is not a list, format_analysis
\* raises ValueError "research_gaps must be a list" and returns no record;
\* for a mapping with the three required fields and a list of gaps it
\* returns the same field values with metadata holding the reading of the
\* clock and the version "1.0.0".
C9_GapsShapeChecked ==
  fmt.done =>
    /\ ("research_gaps" \in DOMAIN mapping /\ mapping["research_gaps"].kind # "list") =>
         /\ ~fmt.ok
         /\ fmt.val = EmptyDict
         /\ fmt.exc = Exc("ValueError", <<"research_gaps must be a list">>)
    /\ (RequiredKeys \subseteq DOMAIN mapping /\ mapping["research_gaps"].kind = "list") =>
         /\ fmt.ok
         /\ \A k \in DOMAIN mapping : fmt.val[k] = mapping[k]
         /\ DOMAIN fmt.val = RequiredKeys \cup {"education_level", "metadata"}
         /\ fmt.val["metadata"] = [processed_at |-> utcnow, version |-> "1.0.0"]

\* a record whose research_gaps is a plain string was rejected
C9_Witness ==
  /\ fmt.done
  /\ RequiredKeys \subseteq DOMAIN mapping
  /\ mapping["research_gaps"].kind = "str"
  /\ ~fmt.ok

(***************************************************************************)
(* QueryRefiner (src/src/services/query_refiner.py); a str is the sequence *)
(* of its characters                                                       *)
(***************************************************************************)
stop_words ==
  {<<"a">>, <<"a", "n">>, <<"t", "h", "e">>,
   <<"i", "s">>, <<"a", "r", "e">>, <<"w", "a", "s">>,
   <<"w", "e", "r", "e">>, <<"b", "e">>, <<"b", "e", "e", "n">>,
   <<"w", "h", "a", "t">>, <<"h", "o", "w">>, <<"w", "h", "e", "r", "e">>,
   <<"w", "h", "e", "n">>, <<"w", "h", "y">>, <<"w", "h", "i", "c", "h">>}

academic_keywords ==
  <<<<"r", "e", "s", "e", "a", "r", "c", "h">>,
    <<"s", "t", "u", "d", "y">>,
    <<"p", "a", "p", "e", "r">>,
    <<"a", "n", "a", "l", "y", "s", "i", "s">>,
    <<"s", "u", "r", "v", "e", "y">>>>

LowerLetters ==
  {"a", "b", "c", "d", "e", "f", "g", "h", "i", "j", "k", "l", "m",
   "n", "o", "p", "q", "r", "s", "t", "u", "v", "w", "x", "y", "z"}

\* the upper-case letters of the queries considered, with their lower case
UpperLetters == {"A", "C", "I", "Q", "T", "W"}

\* letters of category Lu that have no lower-case form: c.isupper() and
\* c.isalpha() hold and c.lower() is c; "CC" stands for the one character
\* U+2102 (double-struck capital C)
UncasedUpperLetters == {"CC"}

\* c.lower()
lower(c) ==
  CASE c = "A" -> "a"
    [] c = "C" -> "c"
    [] c = "I" -> "i"
    [] c = "Q" -> "q"
    [] c = "T" -> "t"
    [] c = "W" -> "w"
    [] OTHER -> c

\* the characters \w matches
IsWordChar(c) ==
  c \in LowerLetters \cup UpperLetters \cup UncasedUpperLetters
         \cup DecimalDigits \cup OtherDigits \cup {"_"}

\* re.sub(r'\s+', ' ', s): every run of whitespace becomes one space
RECURSIVE CollapseWhitespace(_)
CollapseWhitespace(s) ==
  IF s = <<>> THEN <<>>
  ELSE IF Head(s) \in Whitespace
  THEN <<" ">> \o CollapseWhitespace(lstrip(s))
  ELSE <<Head(s)>> \o CollapseWhitespace(Tail(s))

\* a substitution that leaves the special characters in place
ReplaceSpecialKeepMutant(s) == s

\* re.sub(r'[^\w\s\-]', ' ', s): every other character becomes a space
ReplaceSpecial(s) ==
  [i \in 1..Len(s) |->
     IF IsWordChar(s[i]) \/ s[i] \in Whitespace \/ s[i] = "-" THEN s[i] ELSE " "]

\* the first word of a str that starts with no whitespace
RECURSIVE FirstWord(_)
FirstWord(s) ==
  IF s = <<>> \/ Head(s) \in Whitespace THEN <<>>
  ELSE <<Head(s)>> \o FirstWord(Tail(s))

\* s.split(): the maximal runs of characters that are no whitespace
RECURSIVE Words(_)
Words(s) ==
  LET t == lstrip(s)
  IN  IF t = <<>> THEN <<>>
      ELSE <<FirstWord(t)>> \o Words(SubSeq(t, Len(FirstWord(t)) + 1, Len(t)))

\* ' '.join(words)
RECURSIVE JoinWords(_)
JoinWords(words) ==
  IF words = <<>> THEN <<>>
  ELSE IF Len(words) = 1 THEN words[1]
  ELSE words[1] \o <<" ">> \o JoinWords(Tail(words))

\* keyword in query
Contains(query, keyword) ==
  \E i \in 0..(Len(query) - Len(keyword)) :
    SubSeq(query, i + 1, i + Len(keyword)) = keyword

\* the literal appended at line 81
Research == <<"r", "e", "s", "e", "a", "r", "c", "h">>

\* an enhancement that does not look for the keywords
EnhanceAlwaysMutant(query) ==
  IF Len(Words(query)) < 8 THEN query \o <<" ">> \o Research ELSE query

\* an enhancement that does not count the words
EnhanceAnyLengthMutant(query) ==
  IF \E k \in 1..Len(academic_keywords) : Contains(query, academic_keywords[k])
  THEN query
  ELSE query \o <<" ">> \o Research

\* _enhance_academic_context
_enhance_academic_context(query) ==
  LET has_academic_keyword ==
        \E k \in 1..Len(academic_keywords) : Contains(query, academic_keywords[k])
  IN  IF ~has_academic_keyword /\ Len(Words(query)) < 8
      THEN query \o <<" ">> \o Research
      ELSE query

\* line 38: query.lower().strip()
LowerStrip(query) == strip([i \in 1..Len(query) |-> lower(query[i])])

\* lines 41-44: the query cleaned of extra whitespace and special characters
Cleaned(query) == ReplaceSpecial(CollapseWhitespace(LowerStrip(query)))

\* a filter that drops every stop word, whatever its length
KeptWordsAnyLengthMutant(words) ==
  IF Len(words) > 5
  THEN SelectSeq(words, LAMBDA w : w \notin stop_words)
  ELSE words

\* lines 47-50: the words kept
KeptWords(words) ==
  IF Len(words) > 5
  THEN SelectSeq(words, LAMBDA w : w \notin stop_words \/ Len(w) > 3)
  ELSE words

\* refine, for a query that is a str: no statement of the try block raises
refine(query) ==
  _enhance_academic_context(JoinWords(KeptWords(Words(Cleaned(query)))))

(***************************************************************************)
(* The refiner alone: refine applied to a query and then to its own        *)
(* results.  The queries are the word lists of at most MaxWords words,     *)
(* joined by single spaces, every str of at most MaxChars characters, the  *)
(* lists of more than MaxWords and at most MaxLongWords one-letter words,  *)
(* and two queries written out.                                            *)
(***************************************************************************)
MaxWords == 6

MaxChars == 3

MaxRefines == 2

\* a short stop word, a long stop word, a plain word and an academic keyword
RefineWords ==
  {<<"a">>, <<"w", "h", "a", "t">>, <<"x">>, <<"s", "t", "u", "d", "y">>}

RefineChars == {"a", "A", "CC", " ", "\t", "?", "_", "-"}

MaxLongWords == 9

\* a plain word and a short stop word
LongQueryWords == {<<"x">>, <<"a">>}

\* "What Is Quantum   Computing?"
QuantumQuery ==
  <<"W", "h", "a", "t", " ", "I", "s", " ",
    "Q", "u", "a", "n", "t", "u", "m", " ", " ", " ",
    "C", "o", "m", "p", "u", "t", "i", "n", "g", "?">>

\* "studying x": an academic keyword inside a longer word
StudyingQuery == <<"s", "t", "u", "d", "y", "i", "n", "g", " ", "x">>

RefineQueries ==
  {JoinWords(ws) : ws \in StrsUpTo(RefineWords, MaxWords)}
    \cup StrsUpTo(RefineChars, MaxChars)
    \cup {JoinWords(ws) :
            ws \in UNION {[1..k -> LongQueryWords] : k \in (MaxWords + 1)..MaxLongWords}}
    \cup {QuantumQuery, StudyingQuery}

InitRefine ==
  /\ IdlePipeline
  /\ raw = <<>>
  /\ extracted = Pending
  /\ mapping = EmptyDict
  /\ utcnow = "t1"
  /\ fmt = Pending
  /\ original \in RefineQueries
  /\ refinements = <<>>
  /\ paper_list = <<>>
  /\ rendered = Pending
  /\ argument = None
  /\ answer = Pending

\* POST /refine_query with the original query, then with the last refined query
Refine ==
  /\ Len(refinements) < MaxRefines
  /\ refinements' =
       Append(refinements,
              refine(IF refinements = <<>> THEN original
                     ELSE refinements[Len(refinements)]))
  /\ UNCHANGED <<gateway, req, log, raw, extracted, mapping, utcnow, fmt, original,
                 paper_list, rendered, argument, answer>>

SpecRefine == InitRefine /\ [][Refine]_vars

\* C10 as claimed: refining a refined query changes nothing.
C10_AsClaimed ==
  \A i \in 2..Len(refinements) : refinements[i] = refinements[i - 1]

\* the words of the cleaned original query
CleanedWords == Words(Cleaned(original))

\* a stop word of at most three characters: what line 50 drops
IsShortStopWord(w) ==
  /\ Len(w) <= 3
  /\ w \in {<<"a">>, <<"a", "n">>, <<"t", "h", "e">>, <<"i", "s">>,
            <<"a", "r", "e">>, <<"w", "a", "s">>, <<"b", "e">>,
            <<"h", "o", "w">>, <<"w", "h", "y">>}

\* words is empty, or has more than five words that are all stop words of
\* at most three characters, or has exactly five words, no academic keyword
\* and a stop word of at most three characters
UnstableWords(words) ==
  \/ words = <<>>
  \/ Len(words) > 5 /\ \A i \in 1..Len(words) : IsShortStopWord(words[i])
  \/ /\ Len(words) = 5
     /\ \E i \in 1..5 : IsShortStopWord(words[i])
     /\ \A k \in 1..Len(academic_keywords) :
          ~Contains(JoinWords(words), academic_keywords[k])

RefineUnstable == UnstableWords(CleanedWords)

\* C10 as amended: refining a refined query changes nothing, unless no
\* word is left of the original query after cleaning and stop-word removal,
\* or its cleaned form has exactly five words of which none holds an
\* academic keyword and one is a stop word of at most three characters; in
\* these cases the second refinement differs from the first.
C10_IdempotentExceptAtThreshold ==
  Len(refinements) >= 2 =>
    /\ ~RefineUnstable => refinements[2] = refinements[1]
    /\ RefineUnstable => refinements[2] # refinements[1]

\* a query of more than five words with stop words refined twice
C10_Witness ==
  /\ Len(refinements) = 2
  /\ LET words == CleanedWords
     IN  Len(words) > 5 /\ \E i \in 1..Len(words) : IsShortStopWord(words[i])
  /\ refinements[1] # original
  /\ refinements[2] = refinements[1]

\* what the claimed filter keeps of words: everything when there are five
\* words or fewer, and otherwise every word that is no stop word of at most
\* three characters, in the order of words
KeptAsClaimed(words) ==
  IF Len(words) <= 5
  THEN words
  ELSE SelectSeq(words, LAMBDA w : ~IsShortStopWord(w))

\* C11: the words of the first refined query are those of the cleaned
\* query, all of them when it has five words or fewer, and otherwise all but
\* the stop words of at most three characters, in their order (followed by
\* the appended word "research", if any).
C11_StopWordsAboveFive ==
  Len(refinements) = 1 =>
    LET kept == KeptAsClaimed(CleanedWords)
        out == Words(refinements[1])
    IN  out = kept \/ out = Append(kept, Research)

\* a query of more than five words, with a stop word that was dropped and a
\* stop word of four characters that was kept
C11_Witness ==
  /\ Len(refinements) = 1
  /\ LET words == CleanedWords
         out == Words(refinements[1])
     IN  /\ Len(words) > 5
         /\ \E i \in 1..Len(words) : words[i] = <<"a">>
         /\ \E i \in 1..Len(words) : words[i] = <<"w", "h", "a", "t">>
         /\ \A i \in 1..Len(out) : out[i] # <<"a">>
         /\ \E i \in 1..Len(out) : out[i] = <<"w", "h", "a", "t">>

\* the characters for which c.isalnum() holds
IsAlnum(c) ==
  c \in LowerLetters \cup {"A", "C", "I", "Q", "T", "W", "CC"}
         \cup {"0", "1", "2", "3", "4", "5", "6", "7", "8", "9", "^2"}

IsSpace(c) == c \in {" ", "\t", "\n"}

\* s has no two consecutive whitespace characters
NoDoubleSpace(s) == \A k \in 1..(Len(s) - 1) : ~(IsSpace(s[k]) /\ IsSpace(s[k + 1]))

\* C12 as claimed: a refined query has no upper-case character, no two
\* consecutive whitespace characters, and no character other than
\* alphanumerics, whitespace and hyphen.
C12_AsClaimed ==
  \A i \in 1..Len(refinements) :
    LET s == refinements[i]
    IN  /\ \A k \in 1..Len(s) : s[k] \notin {"A", "C", "I", "Q", "T", "W", "CC"}
        /\ NoDoubleSpace(s)
        /\ \A k \in 1..Len(s) : IsAlnum(s[k]) \/ IsSpace(s[k]) \/ s[k] = "-"

\* C12 as amended: a refined query has no character that has a lower-case
\* form other than itself, no two consecutive whitespace characters, and no
\* character other than alphanumerics, underscore, whitespace and hyphen.
C12_NormalizedCharacters ==
  \A i \in 1..Len(refinements) :
    LET s == refinements[i]
    IN  /\ \A k \in 1..Len(s) : s[k] \notin {"A", "C", "I", "Q", "T", "W"}
        /\ NoDoubleSpace(s)
        /\ \A k \in 1..Len(s) :
             IsAlnum(s[k]) \/ s[k] = "_" \/ IsSpace(s[k]) \/ s[k] = "-"

\* a query with an upper-case letter, an underscore and a question mark was
\* refined: the underscore is kept and the question mark is not
C12_Witness ==
  /\ Len(refinements) = 1
  /\ \E k \in 1..Len(original) : original[k] = "A"
  /\ \E k \in 1..Len(original) : original[k] = "_"
  /\ \E k \in 1..Len(original) : original[k] = "?"
  /\ \E k \in 1..Len(refinements[1]) : refinements[1][k] = "_"
  /\ \A k \in 1..Len(refinements[1]) : refinements[1][k] # "?"

\* "what is quantum computing research"
QuantumRefined ==
  <<"w", "h", "a", "t", " ", "i", "s", " ",
    "q", "u", "a", "n", "t", "u", "m", " ",
    "c", "o", "m", "p", "u", "t", "i", "n", "g", " ",
    "r", "e", "s", "e", "a", "r", "c", "h">>

\* query holds one of research, study, paper, analysis, survey
HasKeyword(s) ==
  \E kw \in {<<"r", "e", "s", "e", "a", "r", "c", "h">>,
              <<"s", "t", "u", "d", "y">>,
              <<"p", "a", "p", "e", "r">>,
              <<"a", "n", "a", "l", "y", "s", "i", "s">>,
              <<"s", "u", "r", "v", "e", "y">>} : Contains(s, kw)

\* C13: the first refined query is the kept words joined by single spaces,
\* followed by " research" exactly when the joined string holds none of the
\* academic keywords and has fewer than 8 words; "What Is Quantum
\* Computing?" is refined to "what is quantum computing research".
C13_ResearchAppended ==
  Len(refinements) = 1 =>
    LET kept == KeptAsClaimed(CleanedWords)
        joined == JoinWords(kept)
    IN  /\ refinements[1] =
             IF ~HasKeyword(joined) /\ Len(kept) < 8
             THEN joined \o <<" ", "r", "e", "s", "e", "a", "r", "c", "h">>
             ELSE joined
        /\ original = QuantumQuery => refinements[1] = QuantumRefined

\* a query without academic keyword that keeps 8 words or more was
\* returned as rejoined
C13_Witness ==
  /\ Len(refinements) = 1
  /\ LET kept == KeptAsClaimed(CleanedWords)
     IN  /\ Len(kept) >= 8
         /\ ~HasKeyword(JoinWords(kept))
         /\ Len(CleanedWords) > Len(kept)
         /\ refinements[1] = JoinWords(kept)

(***************************************************************************)
(* The paper renderer alone: _format_papers applied to every list of at    *)
(* most MaxPapers papers, each a Paper model built from a JSON object or   *)
(* a plain dict                                                            *)
(***************************************************************************)
MaxPapers == 2

\* the JSON objects a Paper is built from: authors and year are absent,
\* null or given
PaperBodies ==
  {[title |-> t, abstract |-> Str(<<"a1">>)] @@ a @@ y :
     t \in {Str(<<"t1">>), Str(<<"t2">>)},
     a \in Optional("authors", {None, List(<<>>), List(<<"Ada", "Bob">>)}),
     y \in Optional("year", {None, IntVal(2020)})}

\* the plain dicts passed as papers
PaperDicts ==
  {[title |-> Str(<<"t3">>), abstract |-> Str(<<"a3">>)] @@ a @@ y :
     a \in Optional("authors", {List(<<"Cy">>)}),
     y \in Optional("year", {IntVal(1999)})}

PaperInputs ==
  {Paper(body) : body \in PaperBodies} \cup {PlainPaper(d) : d \in PaperDicts}

InitPapers ==
  /\ IdlePipeline
  /\ raw = <<>>
  /\ extracted = Pending
  /\ mapping = EmptyDict
  /\ utcnow = "t1"
  /\ fmt = Pending
  /\ original = <<>>
  /\ refinements = <<>>
  /\ paper_list \in StrsUpTo(PaperInputs, MaxPapers)
  /\ rendered = Pending
  /\ argument = None
  /\ answer = Pending

\* line 82: papers_text = self._format_papers(papers)
Render ==
  /\ ~rendered.done
  /\ LET f == _format_papers(paper_list)
     IN  rendered' = Done(f.ok, f.val, f.exc)
  /\ UNCHANGED <<gateway, req, log, raw, extracted, mapping, utcnow, fmt,
                 original, refinements, paper_list, argument, answer>>

SpecPapers == InitPapers /\ [][Render]_vars

\* C14: a rendered context has one entry per paper, the entry at position i
\* is numbered i and holds the title and the abstract of paper i, and
\* rendering leaves the list of papers as it was.
C14_NumberedInOrder ==
  /\ [](rendered.ok =>
          /\ Len(rendered.val) = Len(paper_list)
          /\ \A i \in 1..Len(paper_list) :
               /\ rendered.val[i].n = i
               /\ rendered.val[i].title = paper_list[i].fields["title"].val
               /\ rendered.val[i].abstract = paper_list[i].fields["abstract"].val)
  /\ [][paper_list' = paper_list]_vars

\* two papers with different titles were rendered
C14_Witness ==
  /\ rendered.ok
  /\ Len(paper_list) = 2
  /\ paper_list[1].fields["title"] # paper_list[2].fields["title"]
  /\ paper_list[1].is_model
  /\ ~paper_list[2].is_model

\* the paper has no year: its dict has no year, or holds None as year
HasNoYear(paper) ==
  "year" \notin DOMAIN paper.fields \/ paper.fields["year"].kind = "none"

\* the authors of the paper are an empty list, or were not supplied
AuthorsEmptyOrNotSupplied(paper) ==
  "authors" \notin paper.fields_set \/ paper.fields["authors"] = List(<<>>)

\* C16: rendering succeeds when the authors of every paper are empty or
\* were not supplied; a rendered entry holds the title, the abstract, the
\* authors joined by ", " and the year, which is "N/A" when the paper has
\* no year.
C16_EntryFields ==
  rendered.done =>
    /\ (\A i \in 1..Len(paper_list) : AuthorsEmptyOrNotSupplied(paper_list[i]))
          => rendered.ok
    /\ rendered.ok =>
         \A i \in 1..Len(paper_list) :
           LET paper == paper_list[i]
               entry == rendered.val[i]
           IN  /\ entry.title = paper.fields["title"].val
               /\ entry.abstract = paper.fields["abstract"].val
               /\ entry.authors =
                    IF "authors" \in DOMAIN paper.fields
                    THEN join(", ", paper.fields["authors"].val)
                    ELSE <<>>
               /\ entry.year =
                    IF HasNoYear(paper) THEN <<"N", "/", "A">>
                    ELSE Decimal(paper.fields["year"].val[1])

(***************************************************************************)
(* refine called with any value: a str of at most MaxChars characters, or  *)
(* a value of another type, on which a statement of the try block raises   *)
(***************************************************************************)
\* the statement of the try block of refine that raises on query, and the
\* exception it raises; NoExc when none does.  None and a list have no
\* lower() (line 38); bytes have one, and re.sub with a str pattern rejects
\* them (line 41)
RefineFailure(query) ==
  IF query.kind = "str" THEN NoExc
  ELSE IF query.kind = "bytes"
  THEN Exc("TypeError", <<"cannot use a string pattern on a bytes-like object">>)
  ELSE Exc("AttributeError", <<query.kind, "lower">>)

\* a refine without the except clause of lines 59-62
RefineNoExceptMutant(query) ==
  IF RefineFailure(query) = NoExc
  THEN Done(TRUE, Str(refine(query.val)), NoExc)
  ELSE Done(FALSE, None, RefineFailure(query))

\* refine with its try and except (lines 34-62): what it returns
RefineCall(query) ==
  IF RefineFailure(query) = NoExc
  THEN Done(TRUE, Str(refine(query.val)), NoExc)
  ELSE Done(TRUE, query, NoExc)

RefineArguments ==
  {Str(q) : q \in StrsUpTo(RefineChars, MaxChars)}
    \cup {None, List(<<>>), Bytes(<<"a", "A">>)}

InitFailOpen ==
  /\ IdlePipeline
  /\ raw = <<>>
  /\ extracted = Pending
  /\ mapping = EmptyDict
  /\ utcnow = "t1"
  /\ fmt = Pending
  /\ original = <<>>
  /\ refinements = <<>>
  /\ paper_list = <<>>
  /\ rendered = Pending
  /\ argument \in RefineArguments
  /\ answer = Pending

\* await query_refiner.refine(argument)
RefineAny ==
  /\ ~answer.done
  /\ answer' = RefineCall(argument)
  /\ UNCHANGED <<gateway, req, log, raw, extracted, mapping, utcnow, fmt,
                 original, refinements, paper_list, rendered, argument>>

SpecFailOpen == InitFailOpen /\ [][RefineAny]_vars

\* C17: refine raises nothing; called with a value on which a step of the
\* normalization fails, it returns that value as it was passed; called with
\* a str, it returns a str.
C17_FailOpen ==
  answer.done =>
    /\ answer.ok
    /\ answer.exc = NoExc
    /\ argument.kind # "str" => answer.val = argument
    /\ argument.kind = "str" => answer.val.kind = "str"

\* refine was called with bytes, on which line 41 raises, and returned them
C17_Witness ==
  /\ answer.done
  /\ argument.kind = "bytes"
  /\ answer.val = argument

====
